---- MODULE Spec2Model ----
(***************************************************************************)
(* FocusForge round generation: generate_positions (the layout solver)     *)
(* and make_items (the round generator) of focus-forge.py.                 *)
(*                                                                         *)
(* One behaviour is one top-level call: either generate_positions(n, pad)  *)
(* or make_items(mode, level).  The pseudorandom source is an input: every *)
(* draw is a nondeterministic choice among representative outcomes.        *)
(* Real numbers are kept exact as integers: rng.random() is drawn in units *)
(* of 1/10000, and the float products of the source (size*1.2, size*1.5,   *)
(* size*1.4, pad*2.5, the grid pitch) are the integer expressions that     *)
(* give the same truncated results.  An Item's angle is never read by the  *)
(* generator and is left out of the Item record.                           *)
(***************************************************************************)
EXTENDS Integers, Sequences, FiniteSets

\* ---------------------------------------------------------------- constants
WIDTH == 960
HEIGHT == 720
MARGIN == 60
HudInset == 40
GridHudInset == 80
AttemptsPerItem == 200
SetSizeCap == 60
SizeFloor == 12

SHAPES == <<"circle", "square", "triangle">>
COLOR_NAMES == <<"blue", "orange", "sky", "green", "yellow", "red", "purple">>

\* ------------------------------------------------------------------- bounds
\* generate_positions is called directly with n in 1..MaxN
MaxN == 3
\* make_items is called with level in 1..MaxLevel
MaxLevel == 1
\* at most MaxOdd iterations of the item and crowd loops of one round see
\* arbitrary draws; in every other iteration each draw returns the highest
\* outcome of its range
MaxOdd == 1

\* pads of the direct calls: none, the pad of level >= 28, one that makes the
\* sampling rectangle thin, one that makes it empty
GpPads == {0, 18, 270, 281}
Modes == {"classic", "conjunction", "mixed"}
\* representative values of rng.random(), in units of 1/10000
RandDraws == {0, 4999, 5000, 6499, 6500, 9499, 9500, 9999}
NoDraw == -1
NoShape == "-"
NoColor == "-"

\* entry          the function called at top level
\* mode, level    the arguments of make_items (of its current frame)
\* n, pad         the arguments of generate_positions
\* pc             the position in the code
\* positions, attempts, grid_r, grid_c
\*                the locals of generate_positions (grid_r, grid_c: r, c)
\* path           which branch built positions: "random" or "grid"
\* target_shape .. distract_pairs, target_index, items, i
\*                the locals of make_items
\* crowd_k        the iterations done by the loop of line 231
\* odd            the loop iterations so far that saw arbitrary draws
\* draw1, draw2   the values of rng.random() at lines 199 and 201
\* tick           the parity of the draws made by a rejection loop (the
\*                state of the source moves on with every draw)
\* rule_mode      rule["mode"] of the returned rule
\* mut_from       the pair lines 216-220 gave the item appended last
\* mut_kind       the feature lines 221-225 redrew for it: "shape", "color"
\*                or "none"
\* state          Game.state ("none" while no Game object exists)
\* score, combo, misses   the fields of Game of the same names
\* round_time, time_left  the fields of Game, in milliseconds
\* hardcore, zen  toggles[0].value and toggles[1].value
\* events         the clicks and frames of the game being played
\* With entry = "run" the variables mode and level are Game.mode and
\* Game.level, the arguments new_round passes to make_items.
VARIABLES entry, mode, level, n, pad, pc, positions, attempts, grid_r, grid_c,
          path, target_shape, target_color, distract_shape, distract_color,
          distract_pairs, target_index, items, i, crowd_k, odd, draw1, draw2,
          tick, rule_mode, mut_from, mut_kind,
          state, score, combo, misses, round_time, time_left, hardcore, zen,
          events

vars == <<entry, mode, level, n, pad, pc, positions, attempts, grid_r, grid_c,
          path, target_shape, target_color, distract_shape, distract_color,
          distract_pairs, target_index, items, i, crowd_k, odd, draw1, draw2,
          tick, rule_mode, mut_from, mut_kind,
          state, score, combo, misses, round_time, time_left, hardcore, zen,
          events>>

gpVars == <<n, pad, positions, attempts, grid_r, grid_c, path>>
ruleVars == <<target_shape, target_color, distract_shape, distract_color,
              distract_pairs>>
itemVars == <<target_index, items, i, crowd_k, odd>>
mutVars == <<mut_from, mut_kind>>
gameVars == <<state, score, combo, misses, round_time, time_left, hardcore, zen,
              events>>
NoPair == <<NoShape, NoColor>>

\* ------------------------------------------------------------------ helpers
Min(a, b) == IF a < b THEN a ELSE b
Max(a, b) == IF a > b THEN a ELSE b
SeqSet(s) == {s[k] : k \in 1..Len(s)}
\* the outcomes enumerated for rng.choice(SHAPES) and rng.choice(COLOR_NAMES):
\* every shape, and two of the seven colours (the generator never compares a
\* colour with anything but another colour drawn the same way)
ShapeDraws == SeqSet(SHAPES)
ColorDraws == {COLOR_NAMES[1], COLOR_NAMES[2]}
TopShape == SHAPES[Len(SHAPES)]
TopColor == COLOR_NAMES[2]

\* int(math.sqrt(m))
Isqrt(m) == CHOOSE k \in 0..m : k * k <= m /\ m < (k + 1) * (k + 1)
\* math.ceil(a / b)
CeilDiv(a, b) == (a + b - 1) \div b
CeilSqrt(m) == CHOOSE k \in 0..m : (k - 1) * (k - 1) < m /\ m <= k * k

\* ------------------------------------------------------- difficulty profile
set_size(lv) == Min(8 + lv * 2, SetSizeCap)
size(lv) == Max(SizeFloor, 26 - lv \div 2)
\* heterogeneity*0.35, rotation: thresholds for rng.random(), in 1/10000
heterogeneity(lv) == Min(100, 30 + lv * 5)
MutateThreshold(lv) == heterogeneity(lv) * 35
rotation(lv) == Min(100, 20 + lv * 3) * 100
\* crowding, in 1/100
crowding(lv) == Min(100, lv * 6)
crowd_n(lv) == 2 + (crowding(lv) * 4) \div 100

\* --------------------------------------------------------- generate_positions
\* the bounds of rng.randint for x and for y
XLo(pp) == MARGIN + pp
XHi(pp) == WIDTH - MARGIN - pp
YLo(pp) == MARGIN + pp + HudInset
YHi(pp) == HEIGHT - MARGIN - pp

\* rng.randint(a, b) raises ValueError when a > b
RangeEmpty(pp) == XLo(pp) > XHi(pp) \/ YLo(pp) > YHi(pp)

\* the k-th point (k >= 1) of a lattice spread over the sampling rectangle
Spread(nn, pp, k) ==
    LET cc == CeilSqrt(nn)
        rr == CeilDiv(nn, cc)
        sx == (XHi(pp) - XLo(pp)) \div Max(cc - 1, 1)
        sy == (YHi(pp) - YLo(pp)) \div Max(rr - 1, 1)
    IN  <<XLo(pp) + ((k - 1) % cc) * sx, YLo(pp) + (((k - 1) \div cc) % rr) * sy>>

\* the outcomes enumerated for one (x, y) sample: the next lattice point, or
\* the point accepted last once more
Samples(nn, pp, ps) ==
    {Spread(nn, pp, Len(ps) + 1)} \cup (IF Len(ps) > 0 THEN {ps[Len(ps)]} ELSE {})

\* the for loop of lines 154-157: ok stays True
FarFromAll(ps, s, pp) ==
    \A k \in 1..Len(ps) :
        ~ (4 * ((ps[k][1] - s[1]) * (ps[k][1] - s[1])
                + (ps[k][2] - s[2]) * (ps[k][2] - s[2])) < 25 * pp * pp)

WhileGuard(len, nn, att) == len < nn /\ att < nn * AttemptsPerItem

\* the grid with the column count rounded up
GridCols_ceil(nn) == CeilSqrt(nn)

GridCols(nn) == Isqrt(nn)
GridRows(nn) == CeilDiv(nn, GridCols(nn))
\* (int(MARGIN+(c+1)*gx), int(MARGIN+80+(r+1)*gy)), r and c counted from 0
GridPoint(nn, rr, cc) ==
    <<MARGIN + ((cc + 1) * (WIDTH - 2 * MARGIN)) \div (GridCols(nn) + 1),
      MARGIN + GridHudInset
        + ((rr + 1) * (HEIGHT - 2 * MARGIN - GridHudInset)) \div (GridRows(nn) + 1)>>
\* the grid without the break of line 168
GridBreak_never(len, nn) == FALSE

\* line 168: if len(positions) >= n: break
GridBreak(len, nn) == len >= nn

\* positions = generate_positions(nn, pp, rng): entry of the call
GpCall(nn, pp) ==
    /\ n' = nn
    /\ pad' = pp
    /\ positions' = <<>>
    /\ attempts' = 0
    /\ grid_r' = 0
    /\ grid_c' = 0
    /\ path' = "none"
    /\ pc' = "gp_while"

\* one test of the while condition and, if it holds, one iteration
generate_positions_while ==
    /\ pc = "gp_while"
    /\ IF WhileGuard(Len(positions), n, attempts)
       THEN IF RangeEmpty(pad)
            THEN /\ pc' = "raised"
                 /\ UNCHANGED <<positions, attempts>>
            ELSE /\ \E s \in Samples(n, pad, positions) :
                        positions' = IF FarFromAll(positions, s, pad)
                                     THEN Append(positions, s)
                                     ELSE positions
                 /\ attempts' = attempts + 1
                 /\ pc' = "gp_while"
       ELSE /\ pc' = "gp_if"
            /\ UNCHANGED <<positions, attempts>>
    /\ UNCHANGED <<entry, mode, level, n, pad, grid_r, grid_c, path, ruleVars,
                   itemVars, draw1, draw2, tick, rule_mode>>
    /\ UNCHANGED mutVars
    /\ UNCHANGED gameVars

\* line 160: if len(positions) < n, start the grid over an empty list
generate_positions_if ==
    /\ pc = "gp_if"
    /\ IF Len(positions) < n
       THEN /\ positions' = <<>>
            /\ path' = "grid"
            /\ pc' = "gp_grid"
       ELSE /\ path' = "random"
            /\ pc' = "gp_return"
            /\ UNCHANGED positions
    /\ grid_r' = 0
    /\ grid_c' = 0
    /\ UNCHANGED <<entry, mode, level, n, pad, attempts, ruleVars, itemVars,
                   draw1, draw2, tick, rule_mode>>
    /\ UNCHANGED mutVars
    /\ UNCHANGED gameVars

\* one step of the nested for loops of lines 166-169
generate_positions_grid ==
    /\ pc = "gp_grid"
    /\ IF grid_r >= GridRows(n)
       THEN /\ pc' = "gp_return"
            /\ UNCHANGED <<positions, grid_r, grid_c>>
       ELSE IF grid_c >= GridCols(n) \/ GridBreak(Len(positions), n)
            THEN /\ grid_r' = grid_r + 1
                 /\ grid_c' = 0
                 /\ UNCHANGED <<positions, pc>>
            ELSE /\ positions' = Append(positions, GridPoint(n, grid_r, grid_c))
                 /\ grid_c' = grid_c + 1
                 /\ UNCHANGED <<grid_r, pc>>
    /\ UNCHANGED <<entry, mode, level, n, pad, attempts, path, ruleVars,
                   itemVars, draw1, draw2, tick, rule_mode>>
    /\ UNCHANGED mutVars
    /\ UNCHANGED gameVars

\* return positions: to the caller of a direct call, or into make_items; the
\* locals of the call end with it
generate_positions_return ==
    /\ pc = "gp_return"
    /\ pc' = IF entry = "generate_positions" THEN "done" ELSE "mi_rule"
    /\ attempts' = 0
    /\ grid_r' = 0
    /\ grid_c' = 0
    /\ UNCHANGED <<entry, mode, level, n, pad, positions, path, ruleVars,
                   itemVars, draw1, draw2, tick, rule_mode>>
    /\ UNCHANGED mutVars
    /\ UNCHANGED gameVars

\* ----------------------------------------------------------------- make_items
\* line 178, and the entry of the function: fresh locals
make_items_start ==
    /\ pc = "mi_start"
    /\ GpCall(set_size(level), size(level) + 6)
    /\ draw1' = NoDraw
    /\ draw2' = NoDraw
    /\ UNCHANGED <<entry, mode, level, ruleVars, itemVars, tick, rule_mode>>
    /\ UNCHANGED mutVars
    /\ UNCHANGED gameVars

\* the shape loop never entered: the distractor keeps the target's shape
ShapeLoopGuard_never(ds, ts) == FALSE

\* lines 183 and 190: the conditions of the two rejection loops
ShapeLoopGuard(ds, ts) == ds = ts
ColorLoopGuard(dc, tc) == dc = tc

\* lines 180-182 and 188-189
make_items_classic ==
    /\ pc = "mi_rule"
    /\ mode = "classic"
    /\ \E ts \in ShapeDraws, u \in RandDraws :
          /\ target_shape' = ts
          /\ distract_shape' = ts
          /\ IF u < 5000
             THEN /\ pc' = "cl_shape_while"
                  /\ UNCHANGED <<target_color, distract_color>>
             ELSE /\ \E tc \in ColorDraws :
                        /\ target_color' = tc
                        /\ distract_color' = tc
                  /\ pc' = "cl_color_while"
    /\ UNCHANGED <<entry, mode, level, gpVars, distract_pairs, itemVars, draw1,
                   draw2, tick, rule_mode>>
    /\ UNCHANGED mutVars
    /\ UNCHANGED gameVars

\* lines 183-186: one test of the loop condition, then one redraw or the exit
make_items_shape_while ==
    /\ pc = "cl_shape_while"
    /\ IF ShapeLoopGuard(distract_shape, target_shape)
       THEN /\ \E s \in ShapeDraws : distract_shape' = s
            /\ tick' = 1 - tick
            /\ UNCHANGED <<target_color, distract_color, pc>>
       ELSE /\ \E tc \in ColorDraws :
                  /\ target_color' = tc
                  /\ distract_color' = tc
            /\ tick' = 0
            /\ pc' = "mi_target"
            /\ UNCHANGED distract_shape
    /\ UNCHANGED <<entry, mode, level, gpVars, target_shape, distract_pairs,
                   itemVars, draw1, draw2, rule_mode>>
    /\ UNCHANGED mutVars
    /\ UNCHANGED gameVars

\* lines 190-191
make_items_color_while ==
    /\ pc = "cl_color_while"
    /\ IF ColorLoopGuard(distract_color, target_color)
       THEN /\ \E cn \in ColorDraws : distract_color' = cn
            /\ tick' = 1 - tick
            /\ UNCHANGED pc
       ELSE /\ tick' = 0
            /\ pc' = "mi_target"
            /\ UNCHANGED distract_color
    /\ UNCHANGED <<entry, mode, level, gpVars, target_shape, target_color,
                   distract_shape, distract_pairs, itemVars, draw1, draw2,
                   rule_mode>>
    /\ UNCHANGED mutVars
    /\ UNCHANGED gameVars

\* lines 195-196: the lists the two archetypes are chosen from
D1Colors(tc) == ColorDraws \ {tc}
D2Shapes(ts) == ShapeDraws \ {ts}

\* lines 193-197
make_items_conjunction ==
    /\ pc = "mi_rule"
    /\ mode = "conjunction"
    /\ \E ts \in ShapeDraws, tc \in ColorDraws :
          /\ target_shape' = ts
          /\ target_color' = tc
          /\ \E d1c \in D1Colors(tc), d2s \in D2Shapes(ts) :
                distract_pairs' = << <<ts, d1c>>, <<d2s, tc>> >>
    /\ pc' = "mi_target"
    /\ UNCHANGED <<entry, mode, level, gpVars, distract_shape, distract_color,
                   itemVars, draw1, draw2, tick, rule_mode>>
    /\ UNCHANGED mutVars
    /\ UNCHANGED gameVars

\* lines 199-203: the branch taken for the first draw d1 and, when the first
\* test fails, the second draw d2
MixedBranch(d1, d2) ==
    IF d1 < 6500 THEN "classic"
    ELSE IF d2 < 9500 THEN "conjunction"
    ELSE "oddball"

\* lines 198-207; a delegation is a tail call: make_items starts over with
\* the delegated mode and its result is returned unchanged
make_items_mixed ==
    /\ pc = "mi_rule"
    /\ mode = "mixed"
    /\ \E d1 \in RandDraws, d2 \in RandDraws :
          /\ draw1' = d1
          /\ draw2' = IF d1 < 6500 THEN NoDraw ELSE d2
          /\ LET b == MixedBranch(d1, d2) IN
             IF b = "oddball"
             THEN /\ \E ts \in ShapeDraws, tc \in ColorDraws :
                        /\ target_shape' = ts
                        /\ target_color' = tc
                        /\ distract_shape' = ts
                        /\ distract_color' = tc
                  /\ pc' = "mi_target"
                  /\ UNCHANGED mode
             ELSE /\ mode' = b
                  /\ pc' = "mi_start"
                  /\ UNCHANGED <<target_shape, target_color, distract_shape,
                                 distract_color>>
    /\ UNCHANGED <<entry, level, gpVars, distract_pairs, itemVars, tick,
                   rule_mode>>
    /\ UNCHANGED mutVars
    /\ UNCHANGED gameVars

\* line 209: rng.randrange(k) returns one of 0..k-1; the two ends are drawn
TargetIndexDraws(k) == {0, k - 1}

make_items_target ==
    /\ pc = "mi_target"
    /\ \E t \in TargetIndexDraws(set_size(level)) : target_index' = t
    /\ items' = <<>>
    /\ i' = 0
    /\ pc' = "mi_items"
    /\ UNCHANGED <<entry, mode, level, gpVars, ruleVars, crowd_k, odd, draw1,
                   draw2, tick, rule_mode>>
    /\ UNCHANGED mutVars
    /\ UNCHANGED gameVars

Item(x, y, sz, sh, cn, tg) ==
    [x |-> x, y |-> y, size |-> sz, shape |-> sh, color_name |-> cn, is_target |-> tg]

\* line 213
TargetSize(md, lv) == IF md # "mixed" THEN size(lv) ELSE (size(lv) * 14) \div 10

\* line 214
TargetItem(p) ==
    Item(p[1], p[2], TargetSize(mode, level), target_shape, target_color, TRUE)

\* lines 216-220: the pairs a distractor can start from
ArchetypePairs ==
    IF mode = "conjunction" THEN SeqSet(distract_pairs)
    ELSE {<<distract_shape, distract_color>>}
\* the pair rng.choice(distract_pairs) returns for its highest outcome
TopArchetype ==
    IF mode = "conjunction" THEN distract_pairs[Len(distract_pairs)]
    ELSE <<distract_shape, distract_color>>

\* lines 221-225: the pair of a distractor that starts from base, for the
\* draw u of line 221, the draw coin of line 222 and the choices sh and cn
Mutate(base, u, coin, sh, cn) ==
    IF u < MutateThreshold(level)
    THEN IF coin < 5000 THEN <<sh, base[2]>> ELSE <<base[1], cn>>
    ELSE base

\* every pair lines 216-225 can give a distractor
DistractorPairs ==
    {Mutate(base, u, coin, sh, cn) :
        base \in ArchetypePairs, u \in {0, 9999}, coin \in {0, 9999},
        sh \in ShapeDraws, cn \in ColorDraws}

\* lines 221-222: the feature redrawn for the draws u and coin
MutatedFeature(u, coin) ==
    IF u < MutateThreshold(level)
    THEN IF coin < 5000 THEN "shape" ELSE "color"
    ELSE "none"

\* every outcome of lines 216-225 for a distractor: the pair it starts from,
\* the feature redrawn and the pair it ends with
DistractorDraws ==
    {[from |-> base, kind |-> MutatedFeature(u, coin), pair |-> Mutate(base, u, coin, sh, cn)] :
        base \in ArchetypePairs, u \in {0, 9999}, coin \in {0, 9999},
        sh \in ShapeDraws, cn \in ColorDraws}

\* a distractor built with the target flag set
DistractorItem_target(p, pr) == Item(p[1], p[2], size(level), pr[1], pr[2], TRUE)

\* line 227
DistractorItem(p, pr) == Item(p[1], p[2], size(level), pr[1], pr[2], FALSE)

\* line 228
CrowdGuard(lv, len) == crowding(lv) > 0 /\ len >= 5

\* lines 240-250: rule = {"mode": mode, "desc": ...}; return items, rule
MakeItemsReturn ==
    /\ rule_mode' = mode
    /\ pc' = "done"

\* one iteration of the for loop of lines 210-227; after the last one, the
\* test of line 228 and, without a crowd, the return
make_items_items ==
    /\ pc = "mi_items"
    /\ IF i < Len(positions)
       THEN /\ i' = i + 1
            /\ pc' = "mi_items"
            /\ IF i = target_index
               THEN /\ items' = Append(items, TargetItem(positions[i + 1]))
                    /\ mut_from' = NoPair
                    /\ mut_kind' = "none"
                    /\ UNCHANGED odd
               ELSE \/ /\ items' = Append(items,
                               DistractorItem(positions[i + 1],
                                   Mutate(TopArchetype, 9999, 9999, TopShape, TopColor)))
                       /\ mut_from' = TopArchetype
                       /\ mut_kind' = MutatedFeature(9999, 9999)
                       /\ UNCHANGED odd
                    \/ /\ odd < MaxOdd
                       /\ odd' = odd + 1
                       /\ \E d \in DistractorDraws :
                             /\ items' = Append(items, DistractorItem(positions[i + 1], d.pair))
                             /\ mut_from' = d.from
                             /\ mut_kind' = d.kind
            /\ UNCHANGED <<crowd_k, rule_mode>>
       ELSE /\ IF CrowdGuard(level, Len(items))
               THEN /\ pc' = "mi_crowd"
                    /\ UNCHANGED rule_mode
               ELSE MakeItemsReturn
            /\ crowd_k' = 0
            /\ mut_from' = NoPair
            /\ mut_kind' = "none"
            /\ UNCHANGED <<items, i, odd>>
    /\ UNCHANGED <<entry, mode, level, gpVars, ruleVars, target_index, draw1,
                   draw2, tick>>
    /\ UNCHANGED gameVars

\* int(rng.uniform(-size*2.5, size*2.5)): the highest outcome
TopOffset(sz) == (5 * sz - 1) \div 2
\* the outcomes enumerated for (dx, dy): below the centre and inside the
\* 1.2*size circle, on the centre, and the far corner of the square
OffsetDraws(sz) == {<<0, -((3 * sz) \div 4)>>, <<0, 0>>, <<TopOffset(sz), TopOffset(sz)>>}

\* lines 234-235: dy after the push
Pushed(dx, dy, sz) ==
    IF 100 * (dx * dx + dy * dy) < 144 * sz * sz THEN dy + (sz * 3) \div 2 ELSE dy

\* line 239
CrowdItem(tx, ty, dx, dy, sh, cn) ==
    Item(tx + dx, ty + Pushed(dx, dy, size(level)), Max(8, size(level) - 2), sh, cn, FALSE)

\* every item lines 232-239 can append next to a target at (tx, ty)
CrowdItems(tx, ty) ==
    {CrowdItem(tx, ty, d[1], d[2], sh, cn) :
        d \in OffsetDraws(size(level)), sh \in ShapeDraws, cn \in ColorDraws}

\* one iteration of the for loop of lines 231-239; after the last one, the
\* return
make_items_crowd ==
    /\ pc = "mi_crowd"
    /\ IF crowd_k < crowd_n(level)
       THEN LET tx == items[target_index + 1].x
                ty == items[target_index + 1].y
            IN  /\ crowd_k' = crowd_k + 1
                /\ pc' = "mi_crowd"
                /\ UNCHANGED rule_mode
                /\ \/ /\ items' = Append(items,
                              CrowdItem(tx, ty, TopOffset(size(level)),
                                        TopOffset(size(level)), TopShape, TopColor))
                      /\ UNCHANGED odd
                   \/ /\ odd < MaxOdd
                      /\ odd' = odd + 1
                      /\ \E it \in CrowdItems(tx, ty) : items' = Append(items, it)
       ELSE /\ MakeItemsReturn
            /\ UNCHANGED <<items, crowd_k, odd>>
    /\ UNCHANGED <<entry, mode, level, gpVars, ruleVars, target_index, i, draw1,
                   draw2, tick>>
    /\ UNCHANGED mutVars
    /\ UNCHANGED gameVars

\* ------------------------------------------------------------ specification
InitLocals ==
    /\ positions = <<>>
    /\ attempts = 0
    /\ grid_r = 0
    /\ grid_c = 0
    /\ path = "none"
    /\ target_shape = NoShape
    /\ target_color = NoColor
    /\ distract_shape = NoShape
    /\ distract_color = NoColor
    /\ distract_pairs = <<>>
    /\ target_index = 0
    /\ items = <<>>
    /\ i = 0
    /\ crowd_k = 0
    /\ odd = 0
    /\ draw1 = NoDraw
    /\ draw2 = NoDraw
    /\ tick = 0
    /\ rule_mode = "none"
    /\ mut_from = NoPair
    /\ mut_kind = "none"

\* no Game object: the functions are called on their own
NoGame ==
    /\ state = "none"
    /\ score = 0
    /\ combo = 0
    /\ misses = 0
    /\ round_time = 0
    /\ time_left = 0
    /\ hardcore = FALSE
    /\ zen = FALSE
    /\ events = 0

Init ==
    /\ InitLocals
    /\ NoGame
    /\ \/ /\ entry = "generate_positions"
          /\ mode = "none"
          /\ level = 0
          /\ n \in 1..MaxN
          /\ pad \in GpPads
          /\ pc = "gp_while"
       \/ /\ entry = "make_items"
          /\ mode \in Modes
          /\ level \in 1..MaxLevel
          /\ n = 0
          /\ pad = 0
          /\ pc = "mi_start"

Next ==
    \/ generate_positions_while
    \/ generate_positions_if
    \/ generate_positions_grid
    \/ generate_positions_return
    \/ make_items_start
    \/ make_items_classic
    \/ make_items_shape_while
    \/ make_items_color_while
    \/ make_items_conjunction
    \/ make_items_mixed
    \/ make_items_target
    \/ make_items_items
    \/ make_items_crowd

Spec == Init /\ [][Next]_vars

\* the interpreter runs the single thread until the call returns or raises
FairSpec == Spec /\ WF_vars(Next)

\* --------------------------------------------------------------- class Game
\* Times are in milliseconds: clock.tick returns whole milliseconds and every
\* constant of the class is a multiple of 0.05 s.
\* line 265 and line 319
NormalRoundTime == 12000
\* line 319
HardcoreRoundTime == 10000
\* lines 321 and 378
ZenRoundTime == 9999000
\* line 356
WrongPenalty == 1200
\* line 359
MissPenalty == 250
\* line 344
BaseGain == 100
\* line 345: the points per second left
TimeBonusRate == 8
\* line 346
StreakCap == 150
StreakStep == 15
\* line 362: clock.tick(FPS) with FPS = 60 returns 16 or 17
FrameMs == 17
\* line 362: the value after the process was held up for longer than 9999 s
\* (the clock returns all the time since the previous frame)
StallMs == 10000000
FrameDts == {FrameMs, StallMs}
\* the outcomes of the hit test of lines 339-340 for a click
Hits == {"target", "distractor", "empty"}

\* the clicks and frames followed in one game
MaxEvents == 4

makeVars == <<n, pad, pc, positions, attempts, grid_r, grid_c, path, ruleVars,
              itemVars, draw1, draw2, tick, rule_mode, mutVars>>

\* lines 344-347
Gain(tl, cb) == BaseGain + (Max(0, tl) * TimeBonusRate) \div 1000 + Min(StreakCap, cb * StreakStep)

\* line 378: the test that lets the countdown run
CountdownGuard(tl) == tl < ZenRoundTime

\* lines 378-379: time_left after the frame
Countdown(tl, dt) == IF CountdownGuard(tl) THEN tl - dt ELSE tl

\* lines 69-73, reached from line 369: a click on one of the two toggles
Toggle_handle ==
    /\ state = "menu"
    /\ \/ hardcore' = ~hardcore /\ UNCHANGED zen
       \/ zen' = ~zen /\ UNCHANGED hardcore
    /\ UNCHANGED <<entry, mode, level, makeVars, state, score, combo, misses,
                   round_time, time_left, events>>

\* lines 310-322 and 325-328, reached from a start button of the menu; the
\* items of the round are those make_items returns for (mode, level)
start_game ==
    /\ state = "menu"
    /\ \E m \in Modes : mode' = m
    /\ level' = 1
    /\ score' = 0
    /\ combo' = 0
    /\ misses' = 0
    /\ state' = "play"
    /\ round_time' = IF zen THEN ZenRoundTime
                     ELSE IF hardcore THEN HardcoreRoundTime ELSE NormalRoundTime
    /\ time_left' = round_time'
    /\ events' = 0
    /\ UNCHANGED <<entry, makeVars, hardcore, zen>>

\* lines 323-324
view_scores ==
    /\ state = "menu"
    /\ state' = "scores"
    /\ UNCHANGED <<entry, mode, level, makeVars, score, combo, misses,
                   round_time, time_left, hardcore, zen, events>>

\* lines 375-376: a key or a click on the scores screen
scores_return ==
    /\ state = "scores"
    /\ state' = "menu"
    /\ UNCHANGED <<entry, mode, level, makeVars, score, combo, misses,
                   round_time, time_left, hardcore, zen, events>>

\* lines 371-372: ESC while playing
play_escape ==
    /\ state = "play"
    /\ state' = "menu"
    /\ UNCHANGED <<entry, mode, level, makeVars, score, combo, misses,
                   round_time, time_left, hardcore, zen, events>>

\* lines 337-359, reached from line 374; hit is what the click landed on
handle_click ==
    /\ state = "play"
    /\ events < MaxEvents
    /\ events' = events + 1
    /\ \E hit \in Hits :
          \/ /\ hit = "target"
             /\ combo' = combo + 1
             /\ score' = score + Gain(time_left, combo')
             /\ level' = level + 1
             /\ time_left' = round_time
             /\ UNCHANGED misses
          \/ /\ hit = "distractor"
             /\ combo' = 0
             /\ misses' = misses + 1
             /\ time_left' = time_left - WrongPenalty - MissPenalty
             /\ UNCHANGED <<score, level>>
          \/ /\ hit = "empty"
             /\ time_left' = time_left - MissPenalty
             /\ UNCHANGED <<score, level, combo, misses>>
    /\ UNCHANGED <<entry, mode, makeVars, state, round_time, hardcore, zen>>

\* lines 377-384: the update of one frame while playing (the high score
\* table written at line 382 is read by no test of the loop)
run_update ==
    /\ state = "play"
    /\ events < MaxEvents
    /\ events' = events + 1
    /\ \E dt \in FrameDts : time_left' = Countdown(time_left, dt)
    /\ state' = IF time_left' <= 0 THEN "gameover" ELSE "play"
    /\ UNCHANGED <<entry, mode, level, makeVars, score, combo, misses,
                   round_time, hardcore, zen>>

\* lines 458-462: a key or a button held on the game over screen
gameover_return ==
    /\ state = "gameover"
    /\ state' = "menu"
    /\ UNCHANGED <<entry, mode, level, makeVars, score, combo, misses,
                   round_time, time_left, hardcore, zen, events>>

\* lines 253-279: the Game object after construction, run() about to start
GameInit ==
    /\ InitLocals
    /\ entry = "run"
    /\ pc = "run"
    /\ n = 0
    /\ pad = 0
    /\ state = "menu"
    /\ mode = "mixed"
    /\ level = 1
    /\ score = 0
    /\ round_time = NormalRoundTime
    /\ time_left = NormalRoundTime
    /\ combo = 0
    /\ misses = 0
    /\ hardcore = FALSE
    /\ zen = FALSE
    /\ events = 0

GameNext ==
    \/ Toggle_handle
    \/ start_game
    \/ view_scores
    \/ scores_return
    \/ play_escape
    \/ handle_click
    \/ run_update
    \/ gameover_return

GameSpec == GameInit /\ [][GameNext]_vars

\* ------------------------------------------------------------------- claims
Returned == entry = "make_items" /\ pc = "done"
GpReturns == pc = "gp_return"
Targets == {k \in 1..Len(items) : items[k].is_target}
CrowdIndexes == {k \in 1..Len(items) : k > Len(positions)}

\* C1: the item list make_items returns, base items and crowd items
\* together, holds exactly one item with is_target = TRUE, in every mode and
\* in every branch of mixed.
C1_ExactlyOneTarget == Returned => Cardinality(Targets) = 1

\* a mixed round that took the oddball branch returned with its crowd
C1_Witness ==
    /\ Returned
    /\ mode = "mixed"
    /\ CrowdIndexes # {}
    /\ Cardinality(Targets) = 1

\* C2: whenever generate_positions returns, by random placement or by the
\* grid fallback, the sequence it returns has exactly n positions.
C2_ReturnsNPositions == GpReturns => Len(positions) = n

\* the grid fallback returns for an n its rows and columns overshoot
C2_Witness ==
    /\ GpReturns
    /\ path = "grid"
    /\ Isqrt(n) * CeilDiv(n, Isqrt(n)) > n
    /\ Len(positions) = n

\* C3: in conjunction mode no non-target item of the list (mutated and crowd
\* items included) has both the target's shape and the target's colour.
C3_TargetPairUnique ==
    mode = "conjunction" =>
        \A k \in 1..Len(items) :
            ~ items[k].is_target =>
                ~ (items[k].shape = target_shape /\ items[k].color_name = target_color)

\* C4: the distractor archetypes differ from the target in exactly one of
\* shape and colour: in classic the single archetype keeps one feature and
\* changes the other, in conjunction one archetype is (S, C') with C' # C and
\* the other (S', C) with S' # S.
C4_ArchetypesDifferInOne ==
    (entry = "make_items" /\ pc \in {"mi_target", "mi_items", "mi_crowd", "done"}) =>
        /\ mode = "classic" =>
              \/ distract_shape # target_shape /\ distract_color = target_color
              \/ distract_shape = target_shape /\ distract_color # target_color
        /\ mode = "conjunction" =>
              /\ Len(distract_pairs) = 2
              /\ distract_pairs[1][1] = target_shape
              /\ distract_pairs[1][2] # target_color
              /\ distract_pairs[2][1] # target_shape
              /\ distract_pairs[2][2] = target_color

\* a classic round under the shape rule returned
C4_Witness ==
    /\ Returned
    /\ mode = "classic"
    /\ distract_shape # target_shape
    /\ distract_color = target_color

\* C5: generate_positions signals no error for any n >= 1 and pad >= 0.
C5_NoError == pc # "raised"

\* C6: every position generate_positions returns lies in the padded
\* rectangle MARGIN+pad <= x <= WIDTH-MARGIN-pad,
\* MARGIN+pad+40 <= y <= HEIGHT-MARGIN-pad.
C6_InsideRegion ==
    GpReturns =>
        \A k \in 1..Len(positions) :
            /\ XLo(pad) <= positions[k][1] /\ positions[k][1] <= XHi(pad)
            /\ YLo(pad) <= positions[k][2] /\ positions[k][2] <= YHi(pad)

\* C7: every crowd item ends at distance at least 1.2*size from the target.
C7_CrowdClearOfTarget ==
    \A k \in CrowdIndexes :
        LET t == items[target_index + 1]
            ex == items[k].x - t.x
            ey == items[k].y - t.y
        IN  100 * (ex * ex + ey * ey) >= 144 * size(level) * size(level)

\* C8: the branch of mixed mode is decided by the one draw u: classic exactly
\* when u < 0.65, conjunction when 0.65 <= u < 0.95, oddball when u >= 0.95.
C8_OneCumulativeDraw ==
    draw1 # NoDraw =>
        /\ (mode = "classic") <=> (draw1 < 6500)
        /\ (mode = "conjunction") <=> (6500 <= draw1 /\ draw1 < 9500)
        /\ (mode = "mixed") <=> (9500 <= draw1)

\* C9: every call of make_items terminates whatever the source yields:
\* placement makes at most 200*n attempts and no other step repeats without
\* bound.
C9_Terminates ==
    /\ [](attempts <= n * AttemptsPerItem)
    /\ (entry = "make_items") => <>(pc = "done")

\* the positions ps are the first nn cells, row by row, of the grid with
\* cols columns and just enough rows for nn points
LaidOut(ps, nn, cols) ==
    LET rows == CeilDiv(nn, cols) IN
    /\ Len(ps) = nn
    /\ \A k \in 1..Len(ps) :
          ps[k] = <<MARGIN + ((((k - 1) % cols) + 1) * (WIDTH - 2 * MARGIN)) \div (cols + 1),
                    MARGIN + GridHudInset
                      + ((((k - 1) \div cols) + 1) * (HEIGHT - 2 * MARGIN - GridHudInset))
                            \div (rows + 1)>>

\* C10 as stated: after the fallback the n points lie on the grid with
\* ceil(sqrt(n)) columns.
C10_CeilColumns == (GpReturns /\ path = "grid") => LaidOut(positions, n, CeilSqrt(n))

\* C10 amended: after the fallback none of the random points is left and the
\* n points lie, row by row, on the grid with floor(sqrt(n)) columns and
\* ceil(n / columns) rows.
C10_FloorColumns == (GpReturns /\ path = "grid") => LaidOut(positions, n, Isqrt(n))

\* the fallback returns for an n that is not a perfect square
C10_Witness ==
    /\ GpReturns
    /\ path = "grid"
    /\ Isqrt(n) # CeilSqrt(n)
    /\ Len(positions) = n

\* C11: a distractor selected for heterogeneity mutation gets, for the
\* mutated feature, a value different from the one its archetype assigned,
\* so it differs from the archetype in exactly that one feature.
C11_MutationChangesFeature ==
    (mut_kind # "none" /\ Len(items) > 0) =>
        LET it == items[Len(items)] IN
        /\ mut_kind = "shape" => (it.shape # mut_from[1] /\ it.color_name = mut_from[2])
        /\ mut_kind = "color" => (it.color_name # mut_from[2] /\ it.shape = mut_from[1])

\* C12: in a game started with the Zen toggle on (round_time = 9999 s) the
\* countdown of a frame never runs and the game never reaches the gameover
\* state, whatever frames, correct clicks, wrong clicks and clicks on empty
\* space come.
ZenGame == state = "play" /\ round_time = ZenRoundTime
C12_ZenNeverCountsDown ==
    [][(ZenGame /\ run_update) => (time_left' = time_left /\ state' = "play")]_vars

====
